---- MODULE Spec2Model ----
(***************************************************************************)
(* A model of norpix.py, the reader for Norpix .seq movie files.           *)
(*                                                                         *)
(*   BinParser / SeqHeader : the declarative binary-structure parser and   *)
(*                           the fixed header schema decoded with it       *)
(*   SeqFile               : frame layout, random-access frame reads       *)
(*   SeqImageFloat         : the normalised view of a SeqFile              *)
(*                                                                         *)
(* A file is a byte string.  Its bytes are given by ByteAt: the numeric    *)
(* header fields the reader looks at are stored little-endian at the       *)
(* offsets the header schema gives them, every other byte follows a        *)
(* repeating pattern.  Decoding reads those bytes back.                    *)
(***************************************************************************)
EXTENDS Integers, Sequences, FiniteSets, TLC

VARIABLES
    file,       \* the bytes on disk: [size, fill, hdr]
    optimized,  \* TRUE when the interpreter strips assert statements (python -O)
    cursor,     \* position of the one open file object (self._file / self.file)
    parser,     \* BinParser state: [format, data, marker, offset]
    visits,     \* per schema entry, how many times its fcb has been called
    failed,     \* TRUE once a readTo call on the parser has raised
    obj,        \* the SeqFile: [state, ...attributes]
    last,       \* what the most recent operation was given and what it gave back
    callers,    \* per caller of a shared SeqFile: [pc, i, pixFrom, pixN, res]
    serialized, \* TRUE when the callers serialise their calls externally
    lock        \* the caller inside __getitem__ when the calls are serialised

vars == <<file, optimized, cursor, parser, visits, failed, obj, last,
          callers, serialized, lock>>

(***************************************************************************)
(* Bounds of the model.                                                    *)
(***************************************************************************)
PatternMod == 13    \* pattern bytes are (fill + position) % PatternMod
MaxFrames  == 2     \* files hold up to this many whole frame records
MaxIndex   == 1     \* frame numbers tried range over -MaxIndex .. MaxIndex and around the frame count

(***************************************************************************)
(* Program constants.                                                      *)
(***************************************************************************)
StreamPix6Version  == 5      \* h['Version'] == 5
StreamPix6Offset   == 8192   \* self._imageOffset for version 5
DefaultImageOffset == 1024   \* self._imageOffset otherwise
RequiredHeaderSize == 1024   \* assert d['HeaderSize'] == 1024
MonoImageFormat    == 100    \* d['ImageFormat'] != 100 raises IOError
DefaultFullscale   == 255    \* SeqImageFloat.__init__(self, source, fullscale=255)
TimestampBytes     == 6      \* struct.Struct('<LH').size, self._file.read(6)
HeaderCheckpoint   == 596    \* self.checkoffset(596)

NoPlace  == "None"   \* readTo(place=None)
NoOffset == -1       \* readTo(offset=None)

Min(a, b) == IF a < b THEN a ELSE b
Max(a, b) == IF a > b THEN a ELSE b

RECURSIVE Pow(_, _)
Pow(b, e) == IF e = 0 THEN 1 ELSE b * Pow(b, e - 1)

(***************************************************************************)
(* Data types for BinParser: name, depends, struct format character, byte  *)
(* width the format character stands for, and count() of raw values.       *)
(***************************************************************************)
BinDatum(name, fmt, bytes, count) ==
    [name |-> name, depends |-> {}, fmt |-> fmt, bytes |-> bytes, count |-> count]

BinByte(name)          == BinDatum(name, "B", 1, 1)
BinWord(name)          == BinDatum(name, "H", 2, 1)
BinDWord(name)         == BinDatum(name, "L", 4, 1)
BinLong(name)          == BinDatum(name, "l", 4, 1)
BinDouble(name)        == BinDatum(name, "d", 8, 1)
BinString(name, bytes) == BinDatum(name, "s", bytes, 1)
BinPad(bytes)          == BinDatum("_PAD", "x", bytes, 0)

\* the depends=[...] keyword of the constructors
Depends(f, names) == [f EXCEPT !.depends = names]

\* struct.unpack gives one raw value per format item, none for pad bytes
RawValues(f) == IF f.fmt = "x" THEN 0 ELSE 1

(***************************************************************************)
(* SeqHeader's format.                                                     *)
(***************************************************************************)
HeaderFormat ==
    << BinDWord("Magic"),
       BinString("Name", 24),
       BinLong("Version"),
       BinLong("HeaderSize"),
       BinString("Description", 512),
       BinDWord("Width"),
       BinDWord("Height"),
       BinDWord("BitDepth"),
       BinDWord("BitDepthReal"),
       BinDWord("ImageSizeBytes"),
       BinDWord("ImageFormat"),
       BinDWord("AllocatedFrames"),
       BinDWord("Origin"),
       BinDWord("TrueImageSize"),
       BinDouble("SuggestedFrameRate"),
       BinLong("DescriptionFormat") >>

RECURSIVE SegSize(_, _, _)
\* struct.calcsize('<' + fstr of format[from..to]): little-endian, no alignment
SegSize(format, from, to) ==
    IF from > to THEN 0 ELSE format[from].bytes + SegSize(format, from + 1, to)

\* byte offset of each header field, as the schema lays them out
HeaderOffset ==
    [k \in 1..Len(HeaderFormat) |-> SegSize(HeaderFormat, 1, k - 1)]

(***************************************************************************)
(* The bytes of a file.                                                    *)
(***************************************************************************)
\* byte j (0 = least significant) of a non-negative value stored little-endian
LEByte(v, j) == (v \div Pow(256, j)) % 256

HeaderFieldAt(f, p) ==
    {k \in 1..Len(HeaderFormat) :
        /\ HeaderFormat[k].name \in DOMAIN f.hdr
        /\ HeaderOffset[k] <= p
        /\ p < HeaderOffset[k] + HeaderFormat[k].bytes}

ByteAt(f, p) ==
    LET ks == HeaderFieldAt(f, p)
    IN  IF ks # {}
        THEN LET k == CHOOSE k \in ks : TRUE
             IN  LEByte(f.hdr[HeaderFormat[k].name], p - HeaderOffset[k])
        ELSE (f.fill + p) % PatternMod

RECURSIVE Unsigned(_, _, _)
\* little-endian unsigned integer of n bytes at p
Unsigned(f, p, n) ==
    IF n = 0 THEN 0 ELSE ByteAt(f, p) + 256 * Unsigned(f, p + 1, n - 1)

\* little-endian two's complement integer of n bytes at p
Signed(f, p, n) ==
    IF ByteAt(f, p + n - 1) >= 128
    THEN Unsigned(f, p, n - 1) + (ByteAt(f, p + n - 1) - 256) * Pow(256, n - 1)
    ELSE Unsigned(f, p, n)

RawBytes(f, p, n) == [j \in 1..n |-> ByteAt(f, p + j - 1)]

\* the raw value struct.unpack produces for one format item at p
UnpackItem(f, d, p) ==
    CASE d.fmt \in {"B", "H", "L"} -> Unsigned(f, p, d.bytes)
      [] d.fmt \in {"l"}           -> Signed(f, p, d.bytes)
      [] OTHER                     -> RawBytes(f, p, d.bytes)   \* 's' and the 8 bytes of 'd'

RECURSIVE FindNul(_, _)
\* val.find("\0"), 1-based; Len(val) + 1 when there is none
FindNul(val, k) ==
    IF k > Len(val) THEN k ELSE IF val[k] = 0 THEN k ELSE FindNul(val, k + 1)

\* what fcb stores under the field's name
Stored(d, val) ==
    IF d.fmt = "s" THEN SubSeq(val, 1, FindNul(val, 1) - 1) ELSE val

(***************************************************************************)
(* The file object: seek and read on the shared cursor.                    *)
(***************************************************************************)
\* a seek relative to the current position, as seek(pos, 1) would be
SeekRelative(cur, pos) == cur + pos

\* file.seek(pos): absolute; a negative position raises IOError
SeekFault(pos) == pos < 0
Seek(cur, pos) == pos

\* bytes a read of n bytes at cur gets before end of file
Available(f, cur, n) == Max(0, Min(n, f.size - cur))

(***************************************************************************)
(* BinParser.readTo                                                        *)
(***************************************************************************)
NewParser(format) == [format |-> format, data |-> <<>>, marker |-> 0, offset |-> 0]

RECURSIVE ScanSegment(_, _, _, _)
\* the scan loop: indices of the schema entries appended to segment
ScanSegment(format, k, data, place) ==
    IF k > Len(format) THEN <<>>
    ELSE LET f == format[k]
             \* for d in f.depends: if not self.data.has_key(d): break
             \* leaves the inner loop only; the entry is appended either way
             unmet == \E d \in f.depends : d \notin DOMAIN data
         IN  IF f.name = place
             THEN <<k>>
             ELSE <<k>> \o ScanSegment(format, k + 1, data, place)

RECURSIVE Dispatch(_, _, _, _, _, _)
\* the loop over segment after unpack: seg the indices left, pos the byte
\* position of the next raw value, left the raw values not yet claimed
Dispatch(f, format, seg, pos, left, acc) ==
    IF seg = <<>>
    THEN [acc EXCEPT !.fault = IF left > 0 THEN "LayoutMismatch" ELSE "none"]
    ELSE LET d == format[Head(seg)]
         IN  IF left < d.count
             THEN [acc EXCEPT !.fault = "LayoutMismatch"]
             ELSE Dispatch(f, format, Tail(seg), pos + d.bytes, left - d.count,
                    [acc EXCEPT
                       !.data = IF d.count = 0 THEN @
                                ELSE (d.name :> Stored(d, UnpackItem(f, d, pos))) @@ @,
                       !.called = @ \o <<Head(seg)>>])

RECURSIVE SumRaw(_, _)
SumRaw(format, seg) ==
    IF seg = <<>> THEN 0 ELSE RawValues(format[Head(seg)]) + SumRaw(format, Tail(seg))

\* an unpack that only refuses a buffer that is too long
UnpackFaultLongOnly(segsize, got) == got > segsize

\* struct.unpack(fstr, segstr): the buffer must be exactly calcsize(fstr) long
UnpackFault(segsize, got) == got # segsize

\* a marker left one entry short of the segment's end
AdvanceMarkerShort(marker, n) == marker + n - 1

\* self.marker += len(segment)
AdvanceMarker(marker, n) == marker + n

\* self.offset += segsize
AdvanceOffset(offset, segsize) == offset + segsize

\* the outcome of a readTo call: the parser after it, the cursor, the fault
\* raised ("none" when it returns), the segment, the entries whose fcb was
\* called and the offset the segment was read at
Outcome(p, cur, fault, seg, called, base) ==
    [parser |-> p, cursor |-> cur, fault |-> fault, seg |-> seg, called |-> called,
     base |-> base]

\* for f in segment: ... ; if result: raise IndexError
Decoded(p2, cur, seg, base, r) ==
    Outcome([p2 EXCEPT !.data = r.data], cur, r.fault, seg, r.called, base)

\* from self.marker += len(segment) on
ReadSegment(p0, f, cur, seg, segsize) ==
    LET p1  == [p0 EXCEPT !.marker = AdvanceMarker(@, Len(seg))]
        got == Available(f, p0.offset, segsize)
    IN  IF SeekFault(p0.offset)
        THEN Outcome(p1, cur, "IOError", seg, <<>>, p0.offset)
        ELSE IF UnpackFault(segsize, got)
        THEN Outcome(p1, Seek(cur, p0.offset) + got, "StructError", seg, <<>>, p0.offset)
        ELSE Decoded([p1 EXCEPT !.offset = AdvanceOffset(@, segsize)],
                     Seek(cur, p0.offset) + segsize, seg, p0.offset,
                     Dispatch(f, p0.format, seg, p0.offset, SumRaw(p0.format, seg),
                              [data |-> p0.data, called |-> <<>>, fault |-> "none"]))

\* from 'if not segment' on
ReadScanned(p0, f, cur, seg) ==
    IF seg = <<>>
    THEN Outcome(p0, cur, "StalledParse", seg, <<>>, p0.offset)
    ELSE ReadSegment(p0, f, cur, seg, SegSize(p0.format, seg[1], seg[Len(seg)]))

\* The whole of readTo(place, offset).
ReadTo(p, f, cur, place, off) ==
    ReadScanned([p EXCEPT !.offset = IF off # NoOffset THEN off ELSE @], f, cur,
                ScanSegment(p.format, p.marker + 1, p.data, place))

(***************************************************************************)
(* A BinParser on its own, driven by arbitrary readTo calls.                *)
(***************************************************************************)
\* no SeqFile, no callers
NoObject == [state |-> "none"]
Idle     == [op |-> "none"]

\* schemas whose entries declare dependencies, met late or never, and one without
Schemas ==
    { << BinDWord("n"), Depends(BinString("body", 3), {"n"}), BinPad(2), BinWord("crc") >>,
      << Depends(BinWord("len"), {"missing"}), BinDWord("x") >>,
      << BinByte("a"), BinLong("b"), Depends(BinDouble("t"), {"a"}) >> }

ParserFileSizes == {5, 11, 20}
PatternFills    == {0, 5}
Places          == {NoPlace, "n", "body", "crc", "_PAD", "len", "x", "b", "t", "nosuch"}
OffsetArgs      == {NoOffset, 0, 2}

InitParser ==
    /\ file \in [size : ParserFileSizes, fill : PatternFills, hdr : {<<>>}]
    /\ optimized = FALSE
    /\ cursor = 0
    /\ parser \in {NewParser(s) : s \in Schemas}
    /\ visits = [k \in 1..Len(parser.format) |-> 0]
    /\ failed = FALSE
    /\ obj = NoObject
    /\ last = Idle
    /\ callers = <<>>
    /\ serialized = FALSE
    /\ lock = 0

Count(seq, k) == Cardinality({j \in 1..Len(seq) : seq[j] = k})

\* parser.readTo(place, offset)
ReadToCall(place, off) ==
    LET r == ReadTo(parser, file, cursor, place, off)
    IN  /\ parser' = r.parser
        /\ cursor' = r.cursor
        /\ visits' = [k \in DOMAIN visits |-> visits[k] + Count(r.called, k)]
        /\ failed' = (failed \/ r.fault # "none")
        /\ last' = [op |-> "readTo", place |-> place, off |-> off, fault |-> r.fault,
                    seg |-> r.seg, base |-> r.base, keysBefore |-> DOMAIN parser.data,
                    markerBefore |-> parser.marker, offsetBefore |-> parser.offset]
        /\ UNCHANGED <<file, optimized, obj, callers, serialized, lock>>

NextParser == \E place \in Places, off \in OffsetArgs : ReadToCall(place, off)

SpecParser == InitParser /\ [][NextParser]_vars

(***************************************************************************)
(* SeqHeader.__init__                                                      *)
(***************************************************************************)
\* checkoffset(target): the warning printed when the running offset is off
OffsetDrift(offset, target) == offset - target # 0

\* assert d['HeaderSize'] == 1024; python -O strips the statement
HeaderSizeFault(opt, data) == ~opt /\ data["HeaderSize"] # RequiredHeaderSize

\* no check of the image format
AnyImageFormat(data) == FALSE

\* if d['ImageFormat'] != 100: raise IOError
ImageFormatFault(data) == data["ImageFormat"] # MonoImageFormat

\* what follows self.readTo() in SeqHeader.__init__
HeaderChecks(r, opt) ==
    LET base == [parser |-> r.parser, cursor |-> r.cursor, called |-> r.called,
                 warned |-> FALSE, fault |-> r.fault]
    IN  IF r.fault # "none" THEN base
        ELSE LET checked == [base EXCEPT
                               !.warned = OffsetDrift(r.parser.offset, HeaderCheckpoint)]
             IN  IF HeaderSizeFault(opt, r.parser.data)
                 THEN [checked EXCEPT !.fault = "AssertionError"]
                 ELSE IF ImageFormatFault(r.parser.data)
                 THEN [checked EXCEPT !.fault = "UnsupportedFormat"]
                 ELSE checked

SeqHeaderInit(f, cur, opt) ==
    HeaderChecks(ReadTo(NewParser(HeaderFormat), f, cur, NoPlace, NoOffset), opt)

(***************************************************************************)
(* SeqFile.__init__                                                        *)
(***************************************************************************)
\* division that truncates towards zero
PyTruncDiv(a, b) == IF a >= 0 THEN a \div b ELSE -((-a) \div b)

\* Python 2 '/' on integers: floor division (TrueImageSize is unsigned)
PyFloorDiv(a, b) == a \div b

\* self._imageOffset
ImageOffset(version) ==
    IF version = StreamPix6Version THEN StreamPix6Offset ELSE DefaultImageOffset

\* self.imageCount = (self.filesize - h['HeaderSize']) / h['TrueImageSize']
ImageCount(filesize, h) == PyFloorDiv(filesize - h["HeaderSize"], h["TrueImageSize"])

\* np.dtype('uint%i' % bpp) exists for these widths only
DTypeBits == {8, 16, 32, 64}

\* SeqImageFloat(self): the fullscale keyword is left at its default
ImFloatOf(fullscale) == [fullscale |-> DefaultFullscale]

Failed(fault) == [state |-> "failed", fault |-> fault]

\* SeqFile.__init__ after self.header = SeqHeader(self._file)
SeqFileAttrs(hd, f) ==
    LET h == hd.parser.data
    IN  IF hd.fault # "none"
        THEN [obj |-> Failed(hd.fault), header |-> hd]
        ELSE IF h["TrueImageSize"] = 0
        THEN [obj |-> Failed("ZeroDivisionError"), header |-> hd]
        ELSE IF h["BitDepth"] \notin DTypeBits
        THEN [obj |-> Failed("TypeError"), header |-> hd]
        ELSE [obj |-> [state          |-> "ok",
                       height         |-> h["Height"],
                       width          |-> h["Width"],
                       realbpp        |-> h["BitDepthReal"],
                       fullscale      |-> Pow(2, h["BitDepthReal"]) - 1,
                       imfloat        |-> ImFloatOf(Pow(2, h["BitDepthReal"]) - 1),
                       bpp            |-> h["BitDepth"],
                       imageOffset    |-> ImageOffset(h["Version"]),
                       imageBlockSize |-> h["TrueImageSize"],
                       filesize       |-> f.size,
                       imageCount     |-> ImageCount(f.size, h),
                       itemBytes      |-> h["BitDepth"] \div 8,
                       pixlen         |-> h["ImageSizeBytes"]],
              header |-> hd]

\* open(filename, 'rb') puts the cursor at 0; the header is parsed from there
SeqFileInit(f, opt) == SeqFileAttrs(SeqHeaderInit(f, 0, opt), f)

(***************************************************************************)
(* SeqFile.__getitem__, __len__ and the imfloat view                       *)
(***************************************************************************)
\* A frame number i is passed as x2 = 2 * i, so that halves can be passed.
Trunc2(x2) == IF x2 >= 0 THEN x2 \div 2 ELSE -((-x2) \div 2)   \* int(i)

\* if int(i) != i
NotIntegral(x2) == 2 * Trunc2(x2) # x2

\* if i >= self.imageCount
PastEnd(o, i) == i >= o.imageCount

\* self._imageOffset + self._imageBlockSize * i
FramePos(o, i) == o.imageOffset + o.imageBlockSize * i

\* a fromfile that leaves the file object's position where it was
FromFileUnsynced(f, cur, itemBytes, count) ==
    [from |-> cur, n |-> Available(f, cur, count * itemBytes) \div itemBytes, cursor |-> cur]

\* np.fromfile(file, dtype, count): up to count whole items from the cursor
FromFile(f, cur, itemBytes, count) ==
    LET got == Available(f, cur, count * itemBytes)
        n   == got \div itemBytes
    IN  [from |-> cur, n |-> n, cursor |-> cur + got]

\* the array fromfile built: n items of itemBytes each, little-endian unsigned
Pixels(f, from, n, itemBytes) ==
    [k \in 1..n |-> Unsigned(f, from + (k - 1) * itemBytes, itemBytes)]

\* .reshape((height, width)) needs exactly height * width items
ReshapeFault(o, n) == n # o.height * o.width

\* self._file.read(6) and self._timestampStruct.unpack: '<LH'
ReadTimestamp(f, cur) ==
    LET got == Available(f, cur, TimestampBytes)
    IN  [fault  |-> IF got # TimestampBytes THEN "StructError" ELSE "none",
         from   |-> cur,
         cursor |-> cur + got,
         ts     |-> IF got # TimestampBytes THEN <<>>
                    ELSE <<Unsigned(f, cur, 4), Unsigned(f, cur + 4, 2)>>]

Raised(fault, cur) == [fault |-> fault, cursor |-> cur]

\* (imdata, tsecs + float(tms) / 1000.): the timestamp is kept as <<tsecs, tms>>
Frame(o, f, px, t) ==
    [fault |-> "none", cursor |-> t.cursor,
     pix |-> Pixels(f, px.from, px.n, o.itemBytes), shape |-> <<o.height, o.width>>,
     ts |-> t.ts, pixFrom |-> px.from, tsFrom |-> t.from]

GetItem(o, f, cur, x2) ==
    IF NotIntegral(x2) THEN Raised("InvalidIndex", cur)
    ELSE LET i == Trunc2(x2) IN
    IF PastEnd(o, i) THEN Raised("OutOfRange", cur)
    ELSE IF SeekFault(FramePos(o, i)) THEN Raised("IOError", cur)
    ELSE LET px == FromFile(f, Seek(cur, FramePos(o, i)), o.itemBytes, o.pixlen) IN
    IF ReshapeFault(o, px.n) THEN Raised("ReshapeError", px.cursor)
    ELSE LET t == ReadTimestamp(f, px.cursor) IN
    IF t.fault # "none" THEN Raised(t.fault, t.cursor)
    ELSE Frame(o, f, px, t)

\* len(seqfile): Python refuses a negative __len__
Len_(o) ==
    IF o.imageCount < 0 THEN [fault |-> "ValueError"]
    ELSE [fault |-> "none", value |-> o.imageCount]

\* SeqImageFloat.filter: i[0] / float(self.fullscale), i[1]; a pixel v becomes
\* the fraction <<v, fullscale>>
Filter(view, r) ==
    [r EXCEPT !.pix = [k \in DOMAIN r.pix |-> <<r.pix[k], view.fullscale>>]]

\* FilterILI.__getitem__: self.filter(self.source[i])
ImFloatGetItem(o, f, cur, x2) ==
    LET r == GetItem(o, f, cur, x2)
    IN  IF r.fault # "none" THEN r ELSE Filter(o.imfloat, r)

(***************************************************************************)
(* One caller: a file is opened as a SeqFile and its frames are read.      *)
(***************************************************************************)
\* header fields of the files tried; the other header bytes follow the pattern
Versions       == {3, StreamPix6Version}
HeaderSizes    == {RequiredHeaderSize, StreamPix6Offset}
ImageFormats   == {MonoImageFormat, 200}
\* <<BitDepth, BitDepthReal>>
BitDepths      == {<<8, 8>>, <<8, 4>>, <<16, 12>>}
TrueImageSizes == {0, 16, 32}
FrameWidth     == 2
FrameHeight    == 2

Headers ==
    { [Version        |-> v,
       HeaderSize     |-> hs,
       Width          |-> FrameWidth,
       Height         |-> FrameHeight,
       BitDepth       |-> b[1],
       BitDepthReal   |-> b[2],
       ImageSizeBytes |-> FrameWidth * FrameHeight * (b[1] \div 8),
       ImageFormat    |-> fmt,
       TrueImageSize  |-> t] :
      v \in Versions, hs \in HeaderSizes, b \in BitDepths,
      fmt \in ImageFormats, t \in TrueImageSizes }

\* an empty file, a header cut short, a header with nothing after it, and k whole frame
\* records after either image offset, or a byte less
FileSizes(h) ==
    {0, HeaderCheckpoint - 1, RequiredHeaderSize - 1} \cup
    { base + k * h.TrueImageSize + d :
        base \in {DefaultImageOffset, StreamPix6Offset}, k \in 0..MaxFrames, d \in {-1, 0} }

\* the pattern's first byte
PatternFill == 3

Files ==
    UNION { [size : FileSizes(h), fill : {PatternFill}, hdr : {h}] : h \in Headers }

\* frame numbers, doubled: whole ones around 0 and around the frame count, and halves
IndexArgs(o) ==
    IF o.state # "ok" THEN {}
    ELSE {2 * i : i \in -MaxIndex..MaxIndex} \cup {-1, 1}
           \cup {2 * (o.imageCount + d) : d \in {-1, 0, 1}}

Init ==
    /\ file \in Files
    /\ optimized \in BOOLEAN
    /\ cursor = 0
    /\ parser = NewParser(<<>>)
    /\ visits = <<>>
    /\ failed = FALSE
    /\ obj = NoObject
    /\ last = Idle
    /\ callers = <<>>
    /\ serialized = FALSE
    /\ lock = 0

\* what a call records of the calls before it: whether one returned a frame
\* and whether one raised
History ==
    IF last.op \in {"get", "imfloat"}
    THEN [frames |-> last.hist.frames \/ last.fault = "none",
          faults |-> last.hist.faults \/ last.fault # "none"]
    ELSE [frames |-> FALSE, faults |-> FALSE]

Constructed(r) ==
    /\ obj' = r.obj
    /\ parser' = r.header.parser
    /\ cursor' = r.header.cursor
    /\ visits' = [k \in 1..Len(HeaderFormat) |-> Count(r.header.called, k)]
    /\ failed' = (r.header.fault \in {"StalledParse", "IOError", "StructError", "LayoutMismatch"})
    /\ last' = [op |-> "init", fault |-> IF r.obj.state = "ok" THEN "none" ELSE r.obj.fault,
                warned |-> r.header.warned]

\* seqfile = norpix.SeqFile(filename)
Construct ==
    /\ obj.state = "none"
    /\ Constructed(SeqFileInit(file, optimized))
    /\ UNCHANGED <<file, optimized, callers, serialized, lock>>

Returned(op, x2, r) ==
    /\ cursor' = r.cursor
    /\ last' = [op |-> op, x2 |-> x2, hist |-> History, fault |-> r.fault, value |-> r]

\* seqfile[i]
GetItemCall ==
    /\ obj.state = "ok"
    /\ \E x2 \in IndexArgs(obj) : Returned("get", x2, GetItem(obj, file, cursor, x2))
    /\ UNCHANGED <<file, optimized, parser, visits, failed, obj, callers, serialized, lock>>

\* len(seqfile)
LenCall ==
    /\ obj.state = "ok"
    /\ last' = [op |-> "len", fault |-> Len_(obj).fault, value |-> Len_(obj)]
    /\ UNCHANGED <<file, optimized, cursor, parser, visits, failed, obj, callers,
                   serialized, lock>>

\* seqfile.imfloat[i]
ImFloatCall ==
    /\ obj.state = "ok"
    /\ \E x2 \in IndexArgs(obj) : Returned("imfloat", x2, ImFloatGetItem(obj, file, cursor, x2))
    /\ UNCHANGED <<file, optimized, parser, visits, failed, obj, callers, serialized, lock>>

Next ==
    \/ Construct
    \/ GetItemCall
    \/ LenCall
    \/ ImFloatCall

Spec == Init /\ [][Next]_vars

(***************************************************************************)
(* Two callers share one SeqFile.  Inside __getitem__ the seek, the        *)
(* fromfile and the read are separate operations on the file object, and   *)
(* the other caller may run between them unless the callers serialise      *)
(* their calls themselves.                                                 *)
(***************************************************************************)
Callers == {1, 2}

\* well-formed 8-bit files of MaxFrames whole frame records
RaceFiles ==
    { f \in Files :
        /\ f.hdr.Version # StreamPix6Version
        /\ f.hdr.HeaderSize = RequiredHeaderSize
        /\ f.hdr.ImageFormat = MonoImageFormat
        /\ f.hdr.BitDepth = 8
        /\ f.hdr.TrueImageSize > 0
        /\ f.size = DefaultImageOffset + MaxFrames * f.hdr.TrueImageSize }

\* frame numbers (doubled) the callers ask for
RaceArgs(o) == {2 * i : i \in 0..o.imageCount} \cup {1}

Waiting == [pc |-> "idle"]

Shared(r) ==
    /\ obj = r.obj
    /\ parser = r.header.parser
    /\ cursor = r.header.cursor
    /\ visits = [k \in 1..Len(HeaderFormat) |-> Count(r.header.called, k)]

InitRace ==
    /\ file \in RaceFiles
    /\ optimized = FALSE
    /\ Shared(SeqFileInit(file, optimized))
    /\ failed = FALSE
    /\ last = Idle
    /\ callers = [c \in Callers |-> Waiting]
    /\ serialized \in BOOLEAN
    /\ lock = 0

Finish(c, r) ==
    /\ callers' = [callers EXCEPT ![c] = [pc |-> "done", x2 |-> callers[c].x2, res |-> r]]
    /\ lock' = 0

\* seqfile[i] is entered: the two index checks
Enter(c) ==
    /\ callers[c].pc = "idle"
    /\ serialized => lock = 0
    /\ \E x2 \in RaceArgs(obj) :
          IF NotIntegral(x2)
          THEN /\ callers' = [callers EXCEPT ![c] =
                                [pc |-> "done", x2 |-> x2, res |-> Raised("InvalidIndex", cursor)]]
               /\ lock' = 0
          ELSE IF PastEnd(obj, Trunc2(x2))
          THEN /\ callers' = [callers EXCEPT ![c] =
                                [pc |-> "done", x2 |-> x2, res |-> Raised("OutOfRange", cursor)]]
               /\ lock' = 0
          ELSE /\ callers' = [callers EXCEPT ![c] = [pc |-> "seek", x2 |-> x2]]
               /\ lock' = IF serialized THEN c ELSE 0
    /\ UNCHANGED <<file, optimized, cursor, parser, visits, failed, obj, last, serialized>>

\* self._file.seek(...)
SeekStep(c) ==
    /\ callers[c].pc = "seek"
    /\ LET pos == FramePos(obj, Trunc2(callers[c].x2))
       IN  IF SeekFault(pos)
           THEN Finish(c, Raised("IOError", cursor)) /\ UNCHANGED cursor
           ELSE /\ cursor' = Seek(cursor, pos)
                /\ callers' = [callers EXCEPT ![c].pc = "fromfile"]
                /\ UNCHANGED lock
    /\ UNCHANGED <<file, optimized, parser, visits, failed, obj, last, serialized>>

FromFileDone(c, px) ==
    /\ cursor' = px.cursor
    /\ IF ReshapeFault(obj, px.n)
       THEN Finish(c, Raised("ReshapeError", px.cursor))
       ELSE /\ callers' = [callers EXCEPT ![c] = [pc |-> "read", x2 |-> callers[c].x2, px |-> px]]
            /\ UNCHANGED lock

\* imdata = np.fromfile(...).reshape(...)
FromFileStep(c) ==
    /\ callers[c].pc = "fromfile"
    /\ FromFileDone(c, FromFile(file, cursor, obj.itemBytes, obj.pixlen))
    /\ UNCHANGED <<file, optimized, parser, visits, failed, obj, last, serialized>>

ReadDone(c, t) ==
    /\ cursor' = t.cursor
    /\ IF t.fault # "none"
       THEN Finish(c, Raised(t.fault, t.cursor))
       ELSE Finish(c, Frame(obj, file, callers[c].px, t))

\* self._file.read(6), unpack, return
ReadStep(c) ==
    /\ callers[c].pc = "read"
    /\ ReadDone(c, ReadTimestamp(file, cursor))
    /\ UNCHANGED <<file, optimized, parser, visits, failed, obj, last, serialized>>

\* the caller takes the result and may call again
Return(c) ==
    /\ callers[c].pc = "done"
    /\ callers' = [callers EXCEPT ![c] = Waiting]
    /\ UNCHANGED <<file, optimized, cursor, parser, visits, failed, obj, last,
                   serialized, lock>>

NextRace ==
    \E c \in Callers :
        \/ Enter(c)
        \/ SeekStep(c)
        \/ FromFileStep(c)
        \/ ReadStep(c)
        \/ Return(c)

SpecRace == InitRace /\ [][NextRace]_vars

(***************************************************************************)
(* Properties of the parser (SpecParser).                                  *)
(***************************************************************************)
\* bytes the header schema decodes
HeaderBytes == SegSize(HeaderFormat, 1, Len(HeaderFormat))

\* entry k declares a dependency that was not in the record when the call began
UnmetBefore(k) == ~(parser.format[k].depends \subseteq last.keysBefore)

\* C8: in every readTo call the scan stops before the first remaining entry
\* with a declared dependency missing from the record: no such entry is in
\* the segment, and when it is the first remaining entry the call raises
\* StalledParse without moving the cursor.
C8_SegmentStopsAtUnmetDependency ==
    last.op = "readTo" =>
        /\ \A j \in 1..Len(last.seg) : ~UnmetBefore(last.seg[j])
        /\ (last.markerBefore < Len(parser.format) /\ UnmetBefore(last.markerBefore + 1))
              => (last.fault = "StalledParse" /\ last.seg = <<>>)

LastIndex == Trunc2(last.x2)
LastIntegral == ~NotIntegral(last.x2)
LastValid == LastIntegral /\ 0 <= LastIndex /\ LastIndex < obj.imageCount

\* C1: get(i) raises InvalidIndex for every non-integral i and OutOfRange
\* for every integer i outside [0, frameCount), negative ones included.
C1_BadIndexFaults ==
    last.op = "get" =>
        /\ ~LastIntegral => last.fault = "InvalidIndex"
        /\ (LastIntegral /\ ~LastValid) => last.fault = "OutOfRange"

\* end of the pixel data and timestamp of frame i
FrameEnd(o, i) == FramePos(o, i) + o.pixlen + TimestampBytes

\* C2: for every constructed SeqFile and every i in [0, frameCount) the
\* record of frame i lies inside the file, and get(i) returns a
\* Height x Width buffer and a timestamp read from it.
C2_ValidIndexReadsInsideFile ==
    obj.state = "ok" =>
        /\ \A i \in 0..(obj.imageCount - 1) : FrameEnd(obj, i) <= file.size
        /\ (last.op = "get" /\ LastValid) =>
              /\ last.fault = "none"
              /\ last.value.shape = <<obj.height, obj.width>>
              /\ Len(last.value.pix) = obj.height * obj.width
              /\ last.value.pixFrom = FramePos(obj, LastIndex)

\* C3: whatever get calls came before, failed ones included, get(i) for a
\* valid i gives what it gives as the first call after construction.
C3_GetDependsOnlyOnIndex ==
    (last.op = "get" /\ LastValid) =>
        last.value = GetItem(obj, file, parser.offset, last.x2)

\* a valid get returned a frame after earlier calls that returned frames and
\* earlier calls that raised
C3_FrameAfterMixedCalls ==
    /\ last.op = "get"
    /\ LastValid
    /\ last.fault = "none"
    /\ last.hist.frames
    /\ last.hist.faults

\* floor((fileSize - HeaderSize) / TrueImageSize), stated without division
IsFloorCount(c) ==
    LET t == parser.data["TrueImageSize"]
        n == file.size - parser.data["HeaderSize"]
    IN  c * t <= n /\ n < (c + 1) * t

\* C4 as claimed: len returns floor((fileSize - HeaderSize) / TrueImageSize).
C4_LenIsFloor ==
    (obj.state = "ok" /\ last.op = "len") =>
        (last.fault = "none" /\ IsFloorCount(last.value.value))

\* C4, amended: imageCount is floor((fileSize - HeaderSize) / TrueImageSize);
\* len returns it when it is not negative and raises ValueError when it is.
C4_ImageCountIsFloor ==
    obj.state = "ok" =>
        /\ parser.data["TrueImageSize"] > 0
        /\ IsFloorCount(obj.imageCount)
        /\ last.op = "len" =>
              IF obj.imageCount >= 0
              THEN last.fault = "none" /\ last.value.value = obj.imageCount
              ELSE last.fault = "ValueError"

\* len returned k - 1 frames for a file one byte short of k >= 2 records
C4_OneByteShort ==
    /\ obj.state = "ok"
    /\ last.op = "len"
    /\ last.fault = "none"
    /\ last.value.value >= 1
    /\ file.size = parser.data["HeaderSize"]
                     + (last.value.value + 1) * parser.data["TrueImageSize"] - 1

\* a file that holds all the bytes the header schema decodes
CompleteHeader == file.size >= HeaderBytes

\* C5 as claimed: whatever the other fields, ImageFormat # 100 makes
\* construction fail with UnsupportedFormat.
C5_BadFormatAlwaysUnsupported ==
    (last.op = "init" /\ CompleteHeader /\ file.hdr.ImageFormat # MonoImageFormat) =>
        (obj.state = "failed" /\ last.fault = "UnsupportedFormat")

\* C5, amended: ImageFormat # 100 always makes construction fail; the fault
\* is UnsupportedFormat when HeaderSize is 1024 or asserts are stripped, and
\* the HeaderSize assertion's AssertionError otherwise.
C5_BadFormatNeverConstructs ==
    (last.op = "init" /\ CompleteHeader /\ file.hdr.ImageFormat # MonoImageFormat) =>
        /\ obj.state = "failed"
        /\ last.fault = IF file.hdr.HeaderSize = RequiredHeaderSize \/ optimized
                        THEN "UnsupportedFormat" ELSE "AssertionError"

\* construction was refused for the image format alone
C5_RefusedForFormat ==
    /\ last.op = "init"
    /\ file.hdr.ImageFormat # MonoImageFormat
    /\ file.hdr.HeaderSize = RequiredHeaderSize
    /\ ~optimized
    /\ obj.state = "failed"
    /\ last.fault = "UnsupportedFormat"

\* C6: imfloat[i] is the pixel buffer of get(i) divided by 2^BitDepthReal - 1,
\* every pixel up to that full scale landing in [0, 1], with the timestamp
\* of get(i).  A pixel is the fraction <<numerator, denominator>>.
C6_ImFloatDividesByFullScale ==
    (last.op = "imfloat" /\ last.fault = "none") =>
        LET g == GetItem(obj, file, parser.offset, last.x2)
        IN  /\ last.value.ts = g.ts
            /\ \A k \in DOMAIN g.pix :
                  /\ last.value.pix[k][1] * (Pow(2, obj.realbpp) - 1)
                        = g.pix[k] * last.value.pix[k][2]
                  /\ g.pix[k] <= Pow(2, obj.realbpp) - 1
                        => last.value.pix[k][1] <= last.value.pix[k][2]

\* C7 as claimed: a header cut short of the bytes the schema needs fails
\* with LayoutMismatch or StalledParse, the record holding no field.
C7_TruncatedHeaderFault ==
    (last.op = "init" /\ ~CompleteHeader) =>
        /\ last.fault \in {"LayoutMismatch", "StalledParse"}
        /\ DOMAIN parser.data = {}

\* C7, amended: it fails with the error struct.unpack raises for a short
\* buffer, before any field is stored: the record holds no field, no fcb was
\* called and no SeqFile exists.
C7_TruncatedHeaderStructError ==
    (last.op = "init" /\ ~CompleteHeader) =>
        /\ last.fault = "StructError"
        /\ obj.state = "failed"
        /\ DOMAIN parser.data = {}
        /\ \A k \in DOMAIN visits : visits[k] = 0

\* construction was tried on a file one byte short of a whole header
C7_HeaderCutShort ==
    /\ last.op = "init"
    /\ file.size = HeaderBytes - 1
    /\ last.fault = "StructError"
    /\ cursor = file.size

(***************************************************************************)
(* Properties of a SeqFile shared by two callers (SpecRace).               *)
(***************************************************************************)
\* caller c got a frame whose pixels and timestamp were read at frame i
OwnFrame(c) ==
    LET i == Trunc2(callers[c].x2)
        r == callers[c].res
    IN  /\ r.pixFrom = FramePos(obj, i)
        /\ r.tsFrom = FramePos(obj, i) + obj.pixlen * obj.itemBytes
        /\ r.pix = Pixels(file, FramePos(obj, i), obj.pixlen, obj.itemBytes)

GotFrame(c) == callers[c].pc = "done" /\ callers[c].res.fault = "none"

\* C10: when the callers serialise their calls, every get(i) that returns
\* gives frame i's own pixels and timestamp and every valid i returns; the
\* state in which a call returns data read elsewhere is reachable only
\* without serialisation.
C10_SerializedCallsReadOwnFrame ==
    serialized =>
        \A c \in Callers :
            callers[c].pc = "done" =>
                IF callers[c].res.fault = "none"
                THEN OwnFrame(c)
                ELSE callers[c].res.fault \in {"InvalidIndex", "OutOfRange"}

\* without serialisation a call returned pixels or a timestamp of another position
C10_RacedRead ==
    /\ ~serialized
    /\ \E c \in Callers : GotFrame(c) /\ ~OwnFrame(c)

====
